---- MODULE Spec2Model ----
(***************************************************************************)
(* Model of filemanager/files.py: the pathname validator                   *)
(* (is_pathname_valid), FilePath, FileManifest and File.                   *)
(*                                                                         *)
(* A Python str is a sequence of one-character strings.  The host          *)
(* operating system (os.lstat, os.makedirs, Path.touch, open) is the       *)
(* environment: what it answers is drawn from the answers it can give.     *)
(***************************************************************************)
EXTENDS Integers, Sequences, FiniteSets, TLC

VARIABLES platform, rootIsDir, file_manifest, unvetted, fileObj, dirs, files,
          last

vars == <<platform, rootIsDir, file_manifest, unvetted, fileObj, dirs, files,
          last>>

(***************************************************************************)
(* Bounds.  NameMax stands for the host's NAME_MAX (255 on Linux), scaled  *)
(* down; MaxLen is the longest pathname handed to the validator.           *)
(***************************************************************************)
NameMax == 1

MaxLen == 4

\* The most items the manifest is filled with.
MaxItems == 2

(***************************************************************************)
(* Characters and strings.                                                 *)
(***************************************************************************)
NUL == "NUL"

SLASH == "/"

BSLASH == "\\"

COLON == ":"

Alphabet == {SLASH, BSLASH, COLON, "a", NUL}

Strings == UNION {[1..n -> Alphabet] : n \in 0..MaxLen}

Str(s) == [tag |-> "str", s |-> s]

NonStr == [tag |-> "int", s |-> <<>>]

None == [tag |-> "None", s |-> <<>>]

HasNul(s) == \E i \in 1..Len(s) : s[i] = NUL

\* os.path.sep of the platform.
Sep(plat) == IF plat = "win32" THEN BSLASH ELSE SLASH

\* The characters the platform's path module treats as separators
\* (ntpath: sep and altsep).
Seps(plat) == IF plat = "win32" THEN {BSLASH, SLASH} ELSE {SLASH}

\* str.split(sep): the maximal separator-free runs, empty ones included.
RECURSIVE SplitFrom(_, _, _, _)
SplitFrom(s, sep, i, cur) ==
  IF i > Len(s) THEN <<cur>>
  ELSE IF s[i] = sep THEN <<cur>> \o SplitFrom(s, sep, i + 1, <<>>)
  ELSE SplitFrom(s, sep, i + 1, Append(cur, s[i]))

Split(s, sep) == SplitFrom(s, sep, 1, <<>>)

Suffix(s, i) == SubSeq(s, i, Len(s))

\* os.path.splitdrive(pathname)[1].  posixpath: the pathname itself.
\* ntpath: a drive letter "X:" is stripped; for a pathname that starts with
\* two separators (a UNC share) where the share ends depends on the Python
\* release, so every suffix is a possible remainder.
SplitdriveRest(plat, s) ==
  IF plat # "win32" THEN {s}
  ELSE IF Len(s) >= 2 /\ s[1] \in Seps(plat) /\ s[2] \in Seps(plat)
       THEN {Suffix(s, i) : i \in 1..Len(s) + 1}
  ELSE IF Len(s) >= 2 /\ s[2] = COLON THEN {Suffix(s, 3)}
  ELSE {s}

(***************************************************************************)
(* os.lstat(root_dirname + pathname_part): the outcomes the host can       *)
(* produce.  An embedded NUL is rejected by Python before any system call  *)
(* (ValueError: embedded null byte, Python >= 3.6, which the variable      *)
(* annotation at line 120 requires).  The empty part names the root        *)
(* directory, which exists.  On POSIX a name longer than NAME_MAX fails    *)
(* with ENAMETOOLONG (ERANGE on some systems); OSError carries winerror    *)
(* on Windows only, where a too long name reports winerror 206 and errno   *)
(* ENOENT.                                                                 *)
(***************************************************************************)
ERROR_INVALID_NAME == 123

NoExc == [exc |-> "none", hasWinerror |-> FALSE, winerror |-> 0, errno |-> "0"]

ValueErrorExc ==
  [exc |-> "ValueError", hasWinerror |-> FALSE, winerror |-> 0, errno |-> "0"]

PosixError(e) ==
  [exc |-> "OSError", hasWinerror |-> FALSE, winerror |-> 0, errno |-> e]

WinError(w, e) ==
  [exc |-> "OSError", hasWinerror |-> TRUE, winerror |-> w, errno |-> e]

Lstat(plat, part) ==
  IF HasNul(part) THEN {ValueErrorExc}
  ELSE IF part = <<>> THEN {NoExc}
  ELSE IF plat = "win32"
       THEN IF Len(part) > NameMax
            THEN {WinError(206, "ENOENT")}
            ELSE {NoExc, WinError(2, "ENOENT"), WinError(5, "EACCES"),
                  WinError(ERROR_INVALID_NAME, "EINVAL")}
  ELSE IF Len(part) > NameMax
       THEN {PosixError("ENAMETOOLONG"), PosixError("ERANGE")}
  ELSE {NoExc, PosixError("ENOENT"), PosixError("EACCES")}

\* Lines 82-87: does this OSError say that the pathname is invalid?
InvalidNameMutant(exc) ==
  IF exc.hasWinerror THEN exc.winerror = ERROR_INVALID_NAME
  ELSE exc.errno \in {"ENAMETOOLONG", "ERANGE", "ENOENT"}

InvalidName(exc) ==
  IF exc.hasWinerror THEN exc.winerror = ERROR_INVALID_NAME
  ELSE exc.errno \in {"ENAMETOOLONG", "ERANGE"}

Return(v, parts, probes) ==
  [kind |-> "return", value |-> v, exc |-> "none", parts |-> parts, probes |-> probes]

Raise(e, parts, probes) ==
  [kind |-> "raise", value |-> FALSE, exc |-> e, parts |-> parts, probes |-> probes]

\* Lines 61-87: the loop over the parts, from part i on; probes are the
\* outcomes of the calls of os.lstat made so far.
RECURSIVE ProbeLoop(_, _, _, _)
ProbeLoop(plat, parts, i, probes) ==
  IF i > Len(parts) THEN {Return(TRUE, parts, probes)}
  ELSE UNION {
    LET seen == Append(probes, o) IN
    IF o.exc = "ValueError" THEN {Raise("ValueError", parts, seen)}
    ELSE IF o.exc = "OSError" /\ InvalidName(o) THEN {Return(FALSE, parts, seen)}
    ELSE ProbeLoop(plat, parts, i + 1, seen)
    : o \in Lstat(plat, parts[i]) }

\* Lines 88-95, with the embedded NUL answered by False as the comment at
\* lines 88-89 expects.
OuterTryMutant(r) ==
  IF r.kind = "raise" /\ r.exc \in {"TypeError", "ValueError"}
  THEN Return(FALSE, r.parts, r.probes)
  ELSE r

\* Lines 88-95: the handlers of the outer try.
OuterTry(r) ==
  IF r.kind = "raise" /\ r.exc = "TypeError"
  THEN Return(FALSE, r.parts, r.probes)
  ELSE r

\* Lines 20-95, without the test for the empty string at line 40.
is_pathname_validMutant(plat, isdir, pathname) ==
  IF pathname.tag # "str"
  THEN {Return(FALSE, <<>>, <<>>)}
  ELSE UNION {
    LET parts == Split(rest, Sep(plat)) IN
    IF ~isdir THEN {Raise("AssertionError", parts, <<>>)}
    ELSE {OuterTry(r) : r \in ProbeLoop(plat, parts, 1, <<>>)}
    : rest \in SplitdriveRest(plat, pathname.s) }

\* Lines 20-95, with the failed assertion of line 54 answered by False.
is_pathname_validAssertMutant(plat, isdir, pathname) ==
  IF pathname.tag # "str" \/ pathname.s = <<>>
  THEN {Return(FALSE, <<>>, <<>>)}
  ELSE UNION {
    LET parts == Split(rest, Sep(plat)) IN
    IF ~isdir THEN {Return(FALSE, parts, <<>>)}
    ELSE {OuterTry(r) : r \in ProbeLoop(plat, parts, 1, <<>>)}
    : rest \in SplitdriveRest(plat, pathname.s) }

\* Lines 20-95: every result is_pathname_valid(pathname) can have.
is_pathname_valid(plat, isdir, pathname) ==
  IF pathname.tag # "str" \/ pathname.s = <<>>
  THEN {Return(FALSE, <<>>, <<>>)}
  ELSE UNION {
    LET parts == Split(rest, Sep(plat)) IN
    IF ~isdir THEN {Raise("AssertionError", parts, <<>>)}
    ELSE {OuterTry(r) : r \in ProbeLoop(plat, parts, 1, <<>>)}
    : rest \in SplitdriveRest(plat, pathname.s) }


(***************************************************************************)
(* FilePath and FileContent.  A FilePath object is its path attribute; a   *)
(* FileContent object is its content attribute.                            *)
(***************************************************************************)
Built(p, r) == [kind |-> "return", exc |-> "none", path |-> p, valid |-> r]

NotBuilt(e, r) == [kind |-> "raise", exc |-> e, path |-> <<>>, valid |-> r]

\* Lines 103-107, a constructor that only rejects the empty string.
FilePathInitMutant(plat, isdir, file_path) ==
  { IF r.kind = "raise" THEN NotBuilt(r.exc, r)
    ELSE IF file_path = Str(<<>>)
         THEN NotBuilt("ValueError", r)
    ELSE Built(file_path.s, r)
    : r \in is_pathname_valid(plat, isdir, file_path) }

\* Lines 103-107: every outcome of FilePath(file_path).
FilePathInit(plat, isdir, file_path) ==
  { IF r.kind = "raise" THEN NotBuilt(r.exc, r)
    ELSE IF r.value = FALSE \/ file_path = Str(<<>>)
         THEN NotBuilt("ValueError", r)
    ELSE Built(file_path.s, r)
    : r \in is_pathname_valid(plat, isdir, file_path) }

(***************************************************************************)
(* FileManifest.  A Python dict keeps its keys in insertion order, so the  *)
(* dict is the sequence of its items.                                      *)
(***************************************************************************)
Item(k, v) == [key |-> k, content |-> v]

Keys(m) == {m[i].key : i \in 1..Len(m)}

HasKey(m, k) == k \in Keys(m)

Get(m, k) == (CHOOSE i \in 1..Len(m) : m[i].key = k)

Lookup(m, k) == m[Get(m, k)].content

\* d[k] = v: a present key keeps its place and takes the new value, an
\* absent one is appended.
DictSet(m, k, v) ==
  IF HasKey(m, k)
  THEN [i \in 1..Len(m) |-> IF m[i].key = k THEN Item(k, v) ELSE m[i]]
  ELSE Append(m, Item(k, v))

\* del d[k], dropping the newest item instead (popitem).
DictDelMutant(m, k) == SubSeq(m, 1, Len(m) - 1)

\* del d[k], for a key that is present.
DictDel(m, k) == SelectSeq(m, LAMBDA it : it.key # k)

\* Lines 122-132, rejecting a duplicate as the docstring describes.
add_to_manifestMutant(m, path, content) ==
  IF HasKey(m, path) THEN [manifest |-> m, ret |-> FALSE]
  ELSE [manifest |-> DictSet(m, path, content), ret |-> TRUE]

\* Lines 122-132.
add_to_manifest(m, path, content) ==
  [manifest |-> DictSet(m, path, content), ret |-> TRUE]

\* Lines 134-148, answering True whether or not the key was there.
remove_from_manifestMutant(m, path) ==
  IF path # None
  THEN [manifest |-> DictDel(m, path.s), ret |-> TRUE]
  ELSE [manifest |-> m, ret |-> FALSE]

\* Lines 134-148; path is None or Str(p) for a FilePath whose path is p.
remove_from_manifest(m, path) ==
  IF path # None
  THEN IF HasKey(m, path.s)
       THEN [manifest |-> DictDel(m, path.s), ret |-> TRUE]
       ELSE [manifest |-> m, ret |-> FALSE]
  ELSE [manifest |-> m, ret |-> FALSE]


(***************************************************************************)
(* The filesystem: dirs is the set of directories and files maps each      *)
(* regular file to its contents, both named by the sequence of the names   *)
(* on the way from the root.  A relative pathname starts at Cwd.           *)
(***************************************************************************)
Cwd == << <<"w">> >>

EMPTY == ""

RECURSIVE SplitAnyFrom(_, _, _, _)
SplitAnyFrom(s, seps, i, cur) ==
  IF i > Len(s) THEN <<cur>>
  ELSE IF s[i] \in seps THEN <<cur>> \o SplitAnyFrom(s, seps, i + 1, <<>>)
  ELSE SplitAnyFrom(s, seps, i + 1, Append(cur, s[i]))

\* The file or directory a pathname names: empty names (doubled or trailing
\* separators) drop out.
Resolve(plat, p) ==
  LET names == SelectSeq(SplitAnyFrom(p, Seps(plat), 1, <<>>), LAMBDA n : n # <<>>)
  IN IF p # <<>> /\ p[1] \in Seps(plat) THEN names ELSE Cwd \o names

\* s.rstrip(seps)
RECURSIVE Rstrip(_, _)
Rstrip(s, seps) ==
  IF s # <<>> /\ s[Len(s)] \in seps THEN Rstrip(SubSeq(s, 1, Len(s) - 1), seps)
  ELSE s

\* The index just after the last separator of s (rfind(sep) + 1).
RECURSIVE HeadLen(_, _, _)
HeadLen(s, seps, i) ==
  IF i = 0 \/ s[i] \in seps THEN i ELSE HeadLen(s, seps, i - 1)

\* os.path.dirname(path), for a pathname without a drive.
Dirname(plat, p) ==
  LET head == SubSeq(p, 1, HeadLen(p, Seps(plat), Len(p)))
  IN IF Rstrip(head, Seps(plat)) = <<>> THEN head ELSE Rstrip(head, Seps(plat))

Front(t) == SubSeq(t, 1, Len(t) - 1)

Prefixes(t) == {SubSeq(t, 1, k) : k \in 0..Len(t)}

Fs(d, f, ok) == [dirs |-> d, files |-> f, ok |-> ok]

\* os.makedirs(name, exist_ok=True): the empty name fails; a regular file on
\* the way fails; a fault of the host (fault) stops after any of the
\* directories still to make.
Makedirs(plat, d, f, name, fault) ==
  LET t == Resolve(plat, name) IN
  IF name = <<>> THEN {Fs(d, f, FALSE)}
  ELSE IF \E q \in Prefixes(t) : q \in DOMAIN f THEN {Fs(d, f, FALSE)}
  ELSE IF fault
       THEN {Fs(d \cup {q \in Prefixes(t) : Len(q) <= k}, f, FALSE) :
               k \in 0..(IF Len(t) = 0 THEN 0 ELSE Len(t) - 1)}
  ELSE {Fs(d \cup Prefixes(t), f, TRUE)}

\* Path(path).touch(): an existing file or directory is left as it is, a
\* missing file is made empty, which needs its directory.
Touch(plat, d, f, path, fault) ==
  LET t == Resolve(plat, path) IN
  IF fault THEN Fs(d, f, FALSE)
  ELSE IF t \in d \/ t \in DOMAIN f THEN Fs(d, f, TRUE)
  ELSE IF t # <<>> /\ Front(t) \in d
       THEN Fs(d, [q \in DOMAIN f \cup {t} |-> IF q = t THEN EMPTY ELSE f[q]], TRUE)
  ELSE Fs(d, f, FALSE)

\* Lines 175-177, with the text never written to the opened file.
write_fileMutant(plat, d, f, file, rendered_template, fault) ==
  LET t == Resolve(plat, file) IN
  IF fault = "open" \/ t \in d \/ t = <<>> \/ Front(t) \notin d
  THEN Fs(d, f, FALSE)
  ELSE Fs(d, [q \in DOMAIN f \cup {t} |-> IF q = t THEN EMPTY ELSE f[q]],
          fault # "write")

\* Lines 175-177, with the file opened for appending: the text is put after
\* what the file holds.
write_fileAppendMutant(plat, d, f, file, rendered_template, fault) ==
  LET t == Resolve(plat, file) IN
  IF fault = "open" \/ t \in d \/ t = <<>> \/ Front(t) \notin d
  THEN Fs(d, f, FALSE)
  ELSE IF fault = "write"
       THEN Fs(d, [q \in DOMAIN f \cup {t} |-> IF q \in DOMAIN f THEN f[q] ELSE EMPTY],
               FALSE)
  ELSE Fs(d, [q \in DOMAIN f \cup {t} |->
                IF q # t THEN f[q]
                ELSE IF t \in DOMAIN f THEN f[t] \o rendered_template
                ELSE rendered_template],
          TRUE)

\* Lines 175-177: open(file, "w") truncates, or fails and leaves the file as
\* it was; f.write then stores the text, or fails and leaves the file empty.
write_file(plat, d, f, file, rendered_template, fault) ==
  LET t == Resolve(plat, file) IN
  IF fault = "open" \/ t \in d \/ t = <<>> \/ Front(t) \notin d
  THEN Fs(d, f, FALSE)
  ELSE IF fault = "write"
       THEN Fs(d, [q \in DOMAIN f \cup {t} |-> IF q = t THEN EMPTY ELSE f[q]], FALSE)
  ELSE Fs(d, [q \in DOMAIN f \cup {t} |-> IF q = t THEN rendered_template ELSE f[q]],
          TRUE)

Faults == {"none", "makedirs", "touch", "open", "write"}

\* Lines 166-168: one turn of the loop, for one item of the manifest.
OneItem(plat, d, f, it, fault) ==
  UNION {
    IF ~a.ok THEN {a}
    ELSE LET b == Touch(plat, a.dirs, a.files, it.key, fault = "touch") IN
         IF ~b.ok THEN {b}
         ELSE {write_file(plat, b.dirs, b.files, it.key, it.content, fault)}
    : a \in Makedirs(plat, d, f, Dirname(plat, it.key), fault = "makedirs") }

\* What a call of create_and_write_files leaves: its result, the dict it
\* iterated over, the filesystem, the number of items whose three steps
\* succeeded, and whether the step that failed did so by a fault of the host
\* (not by what the path and the filesystem are).
Outcome(ret, m, d, f, done, faulted) ==
  [ret |-> ret, manifest |-> m, dirs |-> d, files |-> f, done |-> done,
   faulted |-> faulted]

\* Lines 164-172: the loop from item i on; the first failure ends it with
\* False.  The loop reads the dict and never assigns to it.
RECURSIVE WriteLoop(_, _, _, _, _)
WriteLoop(plat, m, i, d, f) ==
  IF i > Len(m) THEN {Outcome(TRUE, m, d, f, i - 1, FALSE)}
  ELSE UNION {
    UNION {
      IF one.ok THEN WriteLoop(plat, m, i + 1, one.dirs, one.files)
      ELSE {Outcome(FALSE, m, one.dirs, one.files, i - 1,
                    one \notin OneItem(plat, d, f, m[i], "none"))}
      : one \in OneItem(plat, d, f, m[i], fault) }
    : fault \in Faults }

\* Lines 158-172, undoing the batch when it fails.
create_and_write_filesMutant(plat, m, d, f) ==
  { IF o.ret THEN o ELSE Outcome(FALSE, m, d, f, o.done, o.faulted)
    : o \in WriteLoop(plat, m, 1, d, f) }

\* Lines 158-172, taking each item out of the dict once it is written.
create_and_write_filesPopMutant(plat, m, d, f) ==
  { [o EXCEPT !.manifest = SubSeq(m, o.done + 1, Len(m))]
    : o \in WriteLoop(plat, m, 1, d, f) }

\* Lines 158-172, answering False when there is nothing to write.
create_and_write_filesEmptyMutant(plat, m, d, f) ==
  IF m = <<>> THEN {Outcome(FALSE, m, d, f, 0, FALSE)}
  ELSE WriteLoop(plat, m, 1, d, f)

\* Lines 158-172: every outcome of File.create_and_write_files().
create_and_write_files(plat, m, d, f) == WriteLoop(plat, m, 1, d, f)


(***************************************************************************)
(* The state machine.  A step is one statement of the caller:              *)
(*   FilePath(s)                                                           *)
(*   fm.add_to_manifest(FilePath(s), FileContent(c))                       *)
(*   fm.remove_from_manifest(FilePath(s))   or   fm.remove_from_manifest() *)
(*   f = File(fm)                                                          *)
(*   f.create_and_write_files()                                            *)
(* unvetted holds the keys of the manifest whose FilePath was built        *)
(* without is_pathname_valid returning True; fileObj is the File made of   *)
(* the manifest, if any; last is the latest call with what it returned.    *)
(***************************************************************************)
TooLong == [i \in 1..NameMax + 1 |-> "a"]

PathAB == <<SLASH, "a", SLASH, "b">>

PathAsB == <<SLASH, "a", SLASH, SLASH, "b">>

PathB == <<"b">>

PathRootB == <<SLASH, "b">>

\* The arguments FilePath is called with.  The name longer than NAME_MAX is
\* tried where the host rejects it; Windows answers it like a missing file
\* and it would be one more bare file name, as PathB is.
PoolInputs(plat) ==
  {Str(<<>>), Str(<<NUL>>), Str(PathAB), Str(PathAsB), Str(PathB), Str(PathRootB),
   NonStr, None}
    \cup (IF plat = "win32" THEN {} ELSE {Str(TooLong)})

Contents == {"x", "y"}

ValidInputs == {Str(s) : s \in Strings} \cup {NonStr, None}

NoValid == Return(FALSE, <<>>, <<>>)

\* A result of is_pathname_valid without its trace.
Brief(r) == [r EXCEPT !.parts = <<>>, !.probes = <<>>]

\* had: whether the key was in the manifest when add_to_manifest was called;
\* path: the path attribute of the FilePath that was built; faulted: whether
\* create_and_write_files was failed by a fault of the host.
Call(op, arg, content, kind, ret, exc, done, valid) ==
  [op |-> op, arg |-> arg, content |-> content, kind |-> kind, ret |-> ret,
   exc |-> exc, done |-> done, valid |-> valid, had |-> FALSE, path |-> <<>>,
   faulted |-> FALSE]

\* No File has been made yet.
NoFile == [built |-> FALSE, shared |-> TRUE, manifest |-> <<>>]

\* Lines 155-156, with the File keeping its own copy of the items the
\* manifest holds when the File is made.
FileInitMutant(m) == [built |-> TRUE, shared |-> FALSE, manifest |-> m]

\* Lines 155-156, File.__init__: self.manifest = mainfest.file_manifest is
\* the manifest's own dict (shared), not a copy of it; the field manifest of
\* the record would hold the File's own items if it had any.
FileInit(m) == [built |-> TRUE, shared |-> TRUE, manifest |-> <<>>]

\* The items self.manifest names when the File's method runs; live is the
\* dict of the FileManifest at that moment.
SelfManifest(obj, live) == IF obj.shared THEN live ELSE obj.manifest

\* /b, as the filesystem names it.
FileB == << <<"b">> >>

\* The filesystem a run starts with: the root, the working directory and a
\* file /b with earlier contents.
Host ==
  /\ platform \in {"posix", "win32"}
  /\ rootIsDir \in (IF platform = "win32" THEN BOOLEAN ELSE {TRUE})
  /\ file_manifest = <<>>
  /\ unvetted = {}
  /\ fileObj = NoFile
  /\ dirs = {<<>>, Cwd}
  /\ files = [q \in {FileB} |-> "old"]

Init ==
  /\ Host
  /\ last = Call("init", None, EMPTY, "return", FALSE, "none", 0, NoValid)

\* What the call of FilePath leaves in last.
Constructed(inp, b) ==
  [Call("FilePath", inp, EMPTY, b.kind, FALSE, b.exc, 0, Brief(b.valid))
     EXCEPT !.path = b.path]

Vetted(b) == b.valid.kind = "return" /\ b.valid.value

\* The outcomes of FilePath(inp), without the traces of the validator.
FilePathOutcomes(inp) ==
  {[b EXCEPT !.valid = Brief(b.valid)] : b \in FilePathInit(platform, rootIsDir, inp)}

\* FilePath(inp)
NewFilePath(inp) ==
  /\ \E b \in FilePathOutcomes(inp) : last' = Constructed(inp, b)
  /\ UNCHANGED <<platform, rootIsDir, file_manifest, unvetted, fileObj, dirs, files>>

\* fm.add_to_manifest(FilePath(inp), FileContent(c)); an exception of
\* FilePath ends the statement.
AddToManifest(inp, c) ==
  /\ \E b \in FilePathOutcomes(inp) :
       IF b.kind = "raise"
       THEN /\ last' = Constructed(inp, b)
            /\ UNCHANGED <<file_manifest, unvetted>>
       ELSE LET r == add_to_manifest(file_manifest, b.path, c) IN
            /\ Len(r.manifest) <= MaxItems
            /\ file_manifest' = r.manifest
            /\ unvetted' = IF Vetted(b) THEN unvetted
                           ELSE unvetted \cup ({b.path} \cap Keys(r.manifest))
            /\ last' = [Call("add", inp, c, "return", r.ret, "none", 0,
                             Brief(b.valid))
                          EXCEPT !.had = HasKey(file_manifest, b.path),
                                 !.path = b.path]
  /\ UNCHANGED <<platform, rootIsDir, fileObj, dirs, files>>

\* fm.remove_from_manifest(FilePath(inp))
RemoveFromManifest(inp) ==
  /\ \E b \in FilePathOutcomes(inp) :
       IF b.kind = "raise"
       THEN /\ last' = Constructed(inp, b)
            /\ UNCHANGED <<file_manifest, unvetted>>
       ELSE LET r == remove_from_manifest(file_manifest, Str(b.path)) IN
            /\ file_manifest' = r.manifest
            /\ unvetted' = unvetted \cap Keys(r.manifest)
            /\ last' = [Call("remove", inp, EMPTY, "return", r.ret, "none",
                             0, Brief(b.valid))
                          EXCEPT !.path = b.path]
  /\ UNCHANGED <<platform, rootIsDir, fileObj, dirs, files>>

\* fm.remove_from_manifest(): path is None.
RemoveNone ==
  /\ LET r == remove_from_manifest(file_manifest, None) IN
       /\ file_manifest' = r.manifest
       /\ unvetted' = unvetted \cap Keys(r.manifest)
       /\ last' = Call("remove", None, EMPTY, "return", r.ret, "none", 0, NoValid)
  /\ UNCHANGED <<platform, rootIsDir, fileObj, dirs, files>>

\* File(manifest): the File shares the manifest's dict.
NewFile ==
  /\ fileObj' = FileInit(file_manifest)
  /\ last' = Call("File", None, EMPTY, "return", FALSE, "none", 0, NoValid)
  /\ UNCHANGED <<platform, rootIsDir, file_manifest, unvetted, dirs, files>>

\* File.create_and_write_files()
CreateAndWriteFiles ==
  /\ fileObj.built
  /\ \E o \in create_and_write_files(platform, SelfManifest(fileObj, file_manifest),
                                      dirs, files) :
       /\ file_manifest' = IF fileObj.shared THEN o.manifest ELSE file_manifest
       /\ fileObj' = IF fileObj.shared THEN fileObj
                     ELSE [fileObj EXCEPT !.manifest = o.manifest]
       /\ dirs' = o.dirs
       /\ files' = o.files
       /\ last' = [Call("create", None, EMPTY, "return", o.ret, "none", o.done,
                        NoValid)
                     EXCEPT !.faulted = o.faulted]
  /\ UNCHANGED <<platform, rootIsDir, unvetted>>

\* The manifest and the FilePath objects given to it, with valid and
\* invalid arguments.
NextManifest ==
  \/ \E inp \in PoolInputs(platform) : NewFilePath(inp)
  \/ \E inp \in PoolInputs(platform), c \in Contents : AddToManifest(inp, c)
  \/ \E inp \in PoolInputs(platform) : RemoveFromManifest(inp)
  \/ RemoveNone

SpecManifest == Init /\ [][NextManifest]_vars

\* The pathnames of the manifests that are written to disk: /a/b and /a//b
\* name one file, /b another, and b has no directory part.
FilePool == {Str(PathAB), Str(PathAsB), Str(PathRootB), Str(PathB)}

\* A manifest is filled, changed and written to disk.
NextFiles ==
  \/ \E inp \in FilePool, c \in Contents : AddToManifest(inp, c)
  \/ \E inp \in FilePool : RemoveFromManifest(inp)
  \/ NewFile
  \/ CreateAndWriteFiles

\* The filesystem modelled is that of a POSIX host (one root, "/" the only
\* separator), so the files are written there.
InitFiles == Init /\ platform = "posix"

SpecFiles == InitFiles /\ [][NextFiles]_vars

\* f = File(fm) is made of the new, empty manifest; every item is added,
\* overwritten or removed after that, and f writes the files.
InitShared ==
  /\ platform = "posix"
  /\ rootIsDir = TRUE
  /\ file_manifest = <<>>
  /\ unvetted = {}
  /\ fileObj = FileInit(file_manifest)
  /\ dirs = {<<>>, Cwd}
  /\ files = [q \in {FileB} |-> "old"]
  /\ last = Call("File", None, EMPTY, "return", FALSE, "none", 0, NoValid)

NextShared ==
  \/ \E inp \in FilePool, c \in Contents : AddToManifest(inp, c)
  \/ \E inp \in FilePool : RemoveFromManifest(inp)
  \/ CreateAndWriteFiles

SpecShared == InitShared /\ [][NextShared]_vars

\* is_pathname_valid(pathname), called on its own: the start state holds
\* the argument, the one step the call.
InitValid ==
  /\ Host
  /\ \E inp \in ValidInputs :
       last = Call("pending", inp, EMPTY, "return", FALSE, "none", 0, NoValid)

Validate(inp) ==
  /\ last.op = "pending"
  /\ last.arg = inp
  /\ \E r \in is_pathname_valid(platform, rootIsDir, inp) :
       last' = Call("valid", inp, EMPTY, r.kind, r.value, r.exc, 0, r)
  /\ UNCHANGED <<platform, rootIsDir, file_manifest, unvetted, fileObj, dirs, files>>

NextValid == \E inp \in ValidInputs : Validate(inp)

SpecValid == InitValid /\ [][NextValid]_vars

(***************************************************************************)
(* Properties of the manifest (checked under SpecManifest).                *)
(***************************************************************************)
\* Every key of m other than k is a key of n with the same content.
OthersKept(m, n, k) ==
  \A j \in Keys(m) \ {k} : HasKey(n, j) /\ Lookup(n, j) = Lookup(m, j)

\* No key occurs twice in the dict.
UniqueKeys(m) == \A i, j \in 1..Len(m) : m[i].key = m[j].key => i = j

C2_RemovePresent ==
  [][(/\ last'.op = "remove"
      /\ last'.arg # None
      /\ HasKey(file_manifest, last'.arg.s)) =>
      LET k == last'.arg.s IN
      /\ last'.kind = "return" /\ last'.ret = TRUE
      /\ ~HasKey(file_manifest', k)
      /\ OthersKept(file_manifest, file_manifest', k)
      /\ Keys(file_manifest') = Keys(file_manifest) \ {k}
      /\ Len(file_manifest') = Len(file_manifest) - 1]_vars

\* A key was removed and another one is left.
C2_Witness ==
  /\ last.op = "remove" /\ last.ret
  /\ ~HasKey(file_manifest, last.arg.s)
  /\ file_manifest # <<>>

\* C3: remove_from_manifest returns False, raises nothing and leaves the
\* manifest as it was when the path is no key of it or when no path (None)
\* is given.
C3_RemoveAbsent ==
  [][(/\ last'.op = "remove"
      /\ (last'.arg = None \/ ~HasKey(file_manifest, last'.arg.s))) =>
      /\ last'.kind = "return" /\ last'.ret = FALSE
      /\ file_manifest' = file_manifest]_vars

\* A FilePath that is no key was given to a manifest that holds other keys.
C3_Witness ==
  /\ last.op = "remove" /\ ~last.ret
  /\ last.arg # None
  /\ ~HasKey(file_manifest, last.arg.s)
  /\ file_manifest # <<>>


(***************************************************************************)
(* Properties of File.create_and_write_files (checked under SpecFiles).    *)
(***************************************************************************)
\* The file item i of the manifest is written to.
Target(i) == Resolve(platform, file_manifest[i].key)

\* The file named by t exists in f and holds c.
Holds(f, t, c) == t \in DOMAIN f /\ f[t] = c

\* Every directory above t exists.
AncestorsExist(t) == \A q \in Prefixes(Front(t)) : q \in dirs

\* The last of the items 1..n that is written to the file of item i.
LastWriter(i, n) ==
  CHOOSE j \in i..n :
    /\ Target(j) = Target(i)
    /\ \A k \in (j + 1)..n : Target(k) # Target(i)

\* C4 as first stated: after a True result every item's file holds that
\* item's content and its ancestor directories exist.
C4_EveryItemWritten ==
  (last.op = "create" /\ last.ret) =>
    \A i \in 1..Len(file_manifest) :
      /\ Holds(files, Target(i), file_manifest[i].content)
      /\ AncestorsExist(Target(i))

\* C4, amended: after a True result every item's file exists, under
\* directories that exist, and holds the content of the last item in
\* iteration order whose path names that file (the item's own content
\* unless a later key names the same file); and the result is True exactly
\* when no step failed for any item.
C4_LastWriterWins ==
  last.op = "create" =>
    /\ last.ret <=> last.done = Len(file_manifest)
    /\ last.ret =>
         \A i \in 1..Len(file_manifest) :
           /\ Holds(files, Target(i),
                    file_manifest[LastWriter(i, Len(file_manifest))].content)
           /\ AncestorsExist(Target(i))

\* Two items with different contents were written to different files.
C4_Witness ==
  /\ last.op = "create" /\ last.ret
  /\ Len(file_manifest) >= 2
  /\ \E i, j \in 1..Len(file_manifest) :
       /\ Target(i) # Target(j)
       /\ Holds(files, Target(i), file_manifest[i].content)
       /\ Holds(files, Target(j), file_manifest[j].content)
       /\ file_manifest[i].content # file_manifest[j].content

\* C5 as first stated: after a failure every item processed before the
\* failing one still has its file with exactly its content.
C5_EarlierItemsKept ==
  (last.op = "create" /\ ~last.ret) =>
    \A i \in 1..last.done :
      Holds(files, Target(i), file_manifest[i].content)

\* C5, amended: a failing step makes the call return False without raising;
\* no item after the failing one is processed (its file is as before the
\* call unless an item up to the failing one names it too); and nothing is
\* rolled back: every item before the failing one still has its file, with
\* exactly its content unless a later item up to and including the failing
\* one names the same file.
C5_StopsAndKeeps ==
  [][(last'.op = "create" /\ ~last'.ret) =>
      LET n == last'.done
          m == file_manifest
          T(i) == Resolve(platform, m[i].key)
      IN
      /\ last'.kind = "return"
      /\ n < Len(m)
      /\ file_manifest' = m
      /\ \A i \in 1..n :
           (\A j \in (i + 1)..(n + 1) : T(j) # T(i)) =>
             Holds(files', T(i), m[i].content)
      /\ \A i \in 1..n : T(i) \in DOMAIN files'
      /\ \A i \in (n + 2)..Len(m) :
           (\A j \in 1..(n + 1) : T(j) # T(i)) =>
             /\ T(i) \in DOMAIN files' <=> T(i) \in DOMAIN files
             /\ T(i) \in DOMAIN files => files'[T(i)] = files[T(i)]]_vars

\* The second item failed after the first was written to another file.
C5_Witness ==
  /\ last.op = "create" /\ ~last.ret
  /\ last.done = 1
  /\ Len(file_manifest) >= 2
  /\ Target(1) # Target(2)
  /\ Holds(files, Target(1), file_manifest[1].content)
  /\ ~Holds(files, Target(2), file_manifest[2].content)


(***************************************************************************)
(* Properties of FilePath (checked under SpecManifest).                    *)
(***************************************************************************)
ValidSaidTrue == last.valid.kind = "return" /\ last.valid.value

ValidSaidFalse == last.valid.kind = "return" /\ ~last.valid.value

\* C10: FilePath(s) raises ValueError when s is empty or
\* is_pathname_valid(s) is False; when is_pathname_valid(s) is True it
\* stores s unchanged as path; so every key of the manifest is a non-empty
\* string that is_pathname_valid accepted when its FilePath was built.
C10_KeysAreValidPaths ==
  /\ (last.op = "FilePath" /\ (last.arg = Str(<<>>) \/ ValidSaidFalse)) =>
       last.kind = "raise" /\ last.exc = "ValueError"
  /\ (last.op = "FilePath" /\ ValidSaidTrue /\ last.arg # Str(<<>>)) =>
       last.kind = "return" /\ last.arg.tag = "str" /\ last.path = last.arg.s
  /\ (last.op \in {"add", "remove"} /\ last.arg # None) =>
       ValidSaidTrue /\ last.arg.tag = "str" /\ last.path = last.arg.s
  /\ unvetted = {}
  /\ \A k \in Keys(file_manifest) : k # <<>>

\* The too long name was refused while the manifest holds a key.
C10_Witness ==
  /\ last.op = "FilePath" /\ last.kind = "raise" /\ last.exc = "ValueError"
  /\ last.arg = Str(TooLong)
  /\ ValidSaidFalse
  /\ file_manifest # <<>>

(***************************************************************************)
(* Properties of is_pathname_valid (checked under SpecValid, where last    *)
(* holds the parts the pathname was split into and the outcome of every    *)
(* call of os.lstat).                                                      *)
(***************************************************************************)
Validated == last.op = "valid"

Parts == last.valid.parts

Probes == last.valid.probes

ReturnedFalse == last.kind = "return" /\ last.ret = FALSE

ReturnedTrue == last.kind = "return" /\ last.ret = TRUE

\* The invalid-name class of OS error, as the specification names it.
InvalidNameClass(o) ==
  /\ o.exc = "OSError"
  /\ \/ o.errno \in {"ENAMETOOLONG", "ERANGE"}
     \/ o.hasWinerror /\ o.winerror = 123

SomeProbeInvalid == \E i \in 1..Len(Probes) : InvalidNameClass(Probes[i])

\* C6: is_pathname_valid returns False for every string that contains a
\* NUL, wherever it stands (stated for the POSIX host, where the root
\* directory always exists and no drive prefix is stripped).
C6_NulIsFalse ==
  (Validated /\ platform = "posix" /\ HasNul(last.arg.s)) => ReturnedFalse

FirstNul == CHOOSE i \in 1..Len(Parts) :
              HasNul(Parts[i]) /\ \A j \in 1..(i - 1) : ~HasNul(Parts[j])

C8_FalseIffInvalidName ==
  (Validated /\ last.arg.tag = "str" /\ last.arg.s # <<>> /\ ~HasNul(last.arg.s)) =>
    /\ ReturnedFalse <=> SomeProbeInvalid
    /\ (rootIsDir /\ ~SomeProbeInvalid) =>
         ReturnedTrue /\ Len(Probes) = Len(Parts)
    /\ last.kind = "raise" => ~rootIsDir /\ last.exc = "AssertionError"
    /\ (platform = "posix" /\ \E i \in 1..Len(Parts) : Len(Parts[i]) > NameMax) =>
         ReturnedFalse

\* A missing part was passed over and the too long part after it made the
\* result False.
C8_Witness ==
  /\ Validated /\ ReturnedFalse
  /\ Len(Probes) = 2
  /\ Probes[1] = PosixError("ENOENT")
  /\ Probes[2] = PosixError("ENAMETOOLONG")
  /\ Len(Parts[2]) = NameMax + 1

\* C9: is_pathname_valid returns False and raises nothing for the empty
\* string and for an argument that is no string, and probes nothing.
C9_EmptyOrNonString ==
  (Validated /\ (last.arg.tag # "str" \/ last.arg.s = <<>>)) =>
    ReturnedFalse /\ Probes = <<>>

\* The empty string was refused on a host whose root directory is missing.
C9_Witness ==
  /\ Validated /\ last.arg = Str(<<>>)
  /\ ~rootIsDir
  /\ ReturnedFalse

(***************************************************************************)
(* Further properties of File.create_and_write_files (SpecFiles,           *)
(* SpecShared).                                                            *)
(***************************************************************************)
\* C11: create_and_write_files on an empty manifest returns True and does
\* nothing to the filesystem: the directories and the files are after the
\* call what they were before it.
C11_EmptyManifestNoOp ==
  [][(last'.op = "create" /\ file_manifest = <<>>) =>
      /\ last'.kind = "return" /\ last'.ret = TRUE
      /\ last'.done = 0
      /\ dirs' = dirs
      /\ files' = files]_vars

\* The File of an empty manifest was written, the filesystem being what a
\* run starts with.
C11_Witness ==
  /\ last.op = "create" /\ last.ret
  /\ file_manifest = <<>>
  /\ dirs = {<<>>, Cwd}
  /\ DOMAIN files = {FileB} /\ files[FileB] = "old"

(***************************************************************************)
(* Duplicate paths (SpecManifest).                                         *)
(***************************************************************************)
\* C12: adding a path that is already a key of the manifest is rejected:
\* the second add_to_manifest returns False and the manifest is left as it
\* was, holding the entry of the first add.
C12_DuplicateRejected ==
  [][(last'.op = "add" /\ HasKey(file_manifest, last'.path)) =>
      /\ last'.ret = FALSE
      /\ file_manifest' = file_manifest]_vars

(***************************************************************************)
(* Faults inside is_pathname_valid (SpecValid).                            *)
(***************************************************************************)
\* The call was made with a non-empty string, so that it went past line 40.
WentIn == Validated /\ last.arg.tag = "str" /\ last.arg.s # <<>>

C14_BareNameWritten ==
  (/\ last.op = "create" /\ ~last.faulted
   /\ Len(file_manifest) = 1
   /\ Front(Target(1)) \in dirs) =>
     /\ last.ret = TRUE
     /\ Holds(files, Target(1), file_manifest[1].content)

\* C15: create_and_write_files acts on exactly the items the manifest holds
\* when it is called, whatever was added, overwritten or removed since the
\* File was made: after True every item of the manifest as it is now has its
\* file, holding the content of the last item that names it; no file that
\* no item names is made or changed, no file is deleted, and only ancestor
\* directories of the items' files are made.
C15_ActsOnLiveManifest ==
  [][last'.op = "create" =>
      LET m == file_manifest
          T(i) == Resolve(platform, m[i].key)
          Named == {T(i) : i \in 1..Len(m)}
      IN
      /\ last'.ret =>
           \A i \in 1..Len(m) :
             \E j \in i..Len(m) :
               /\ T(j) = T(i)
               /\ \A k \in (j + 1)..Len(m) : T(k) # T(i)
               /\ Holds(files', T(i), m[j].content)
      /\ DOMAIN files \subseteq DOMAIN files'
      /\ \A t \in DOMAIN files' \ Named :
           t \in DOMAIN files /\ files'[t] = files[t]
      /\ dirs \subseteq dirs'
      /\ \A q \in dirs' \ dirs :
           \E i \in 1..Len(m) : q \in Prefixes(Front(T(i)))]_vars

\* After the File was made, /a/b was added and written, then removed, and
\* /b was added and written: /a/b is as the first run left it and /b holds
\* the content the manifest has for it.
C15_Witness ==
  /\ fileObj.built
  /\ last.op = "create" /\ last.ret
  /\ Len(file_manifest) = 1
  /\ file_manifest[1] = Item(PathRootB, "y")
  /\ Holds(files, Resolve(platform, PathAB), "x")
  /\ Holds(files, Resolve(platform, PathRootB), "y")

\* C16: writing an item replaces what its file held before: after True a
\* file that an item names holds exactly the content the manifest has for
\* it (that of the last item naming it), whatever it held before the call;
\* and calling create_and_write_files again at once, the manifest being
\* the same, can return True, returns True whenever the host raises no
\* fault, and then leaves the directories and the files as the first call
\* left them.
C16_ReplacesAndRepeats ==
  (last.op = "create" /\ last.ret) =>
    LET again == create_and_write_files(platform, file_manifest, dirs, files) IN
    /\ \A i \in 1..Len(file_manifest) :
         Holds(files, Target(i),
               file_manifest[LastWriter(i, Len(file_manifest))].content)
    /\ \E o \in again : o.ret
    /\ \A o \in again :
         /\ o.ret \/ o.faulted
         /\ o.ret => o.dirs = dirs /\ o.files = files

\* /b, which held "old" when the run began, was written with the content of
\* its item, as was a file that did not exist.
C16_Witness ==
  /\ last.op = "create" /\ last.ret
  /\ Len(file_manifest) = 2
  /\ file_manifest[1].key = PathRootB
  /\ files[FileB] = file_manifest[1].content
  /\ files[FileB] \in Contents
  /\ Target(2) # FileB

\* C17: create_and_write_files never changes the manifest: its items, their
\* order and their contents are after the call what they were before it,
\* whether it returned True or False.
C17_ManifestUntouched ==
  [][last'.op = "create" =>
      /\ last'.kind = "return"
      /\ file_manifest' = file_manifest]_vars

\* The call failed at the second of two items by a fault of the host, and
\* the manifest holds both.
C17_Witness ==
  /\ last.op = "create" /\ ~last.ret /\ last.faulted
  /\ last.done = 1
  /\ Len(file_manifest) = 2
====
